---- MODULE Spec2Model ----
(***************************************************************************)
(* Perishable inventory ledger of the restaurant back office.              *)
(*                                                                         *)
(* The document store (Firestore) is modelled as a set of collections, each *)
(* a function from document id to document; quantities are whole units.    *)
(* A query without order_by streams its documents in ascending id order,   *)
(* and ids are uuid4 values, so a new document may take any unused id.     *)
(***************************************************************************)
EXTENDS Integers, Sequences, FiniteSets, TLC

(* ------------------------------ bounds -------------------------------- *)
MaxQty == 3
MaxNegativeQty == 1
MaxBatches == 2
MaxExpiry == 2
MaxAdjustments == 2
MaxAcknowledged == 1
MaxSaleQty == 2
MaxCount == 4
MaxFifoOps == 1
MaxIngredientStock == 3
MaxSold == 2
MaxSalesOps == 2
MaxConcAmount == 2
MaxAlertOps == 3
MaxForecastDays == 10

Products == {"p1", "p2"}
BatchIds == 1..MaxBatches
None == <<>>
ExpiryDates == {None} \cup {<<d>> : d \in 1..MaxExpiry}
\* the API models put no constraint on a quantity: float / int fields
ItemQuantities == (0 - MaxNegativeQty)..MaxQty
QuantityChanges == (0 - MaxQty - 1)..MaxQty
SaleQuantities == (0 - MaxNegativeQty)..MaxSaleQty
Counts == 0..MaxCount
NoReason == "None"
DateMax == 9999
LowStockThreshold == 5

(* recipe_ingredients collection: static reference data, streamed by id *)
RecipeIngredients ==
    << [menu_item_id |-> "m1", product_id |-> "p1", quantity |-> 1],
       [menu_item_id |-> "m2", product_id |-> "p1", quantity |-> 1],
       [menu_item_id |-> "m2", product_id |-> "p2", quantity |-> 2],
       [menu_item_id |-> "m2", product_id |-> "p2", quantity |-> 0] >>
MenuItems == {"m1", "m2"}

(* dish_ingredients collection: static reference data, streamed by id;    *)
(* the third line was stored without is_critical, the last one names an   *)
(* ingredient that has no document                                        *)
DishIngredients ==
    << [dish_id |-> "d1", ingredient_id |-> "i1", quantity_needed |-> 1,
        is_critical |-> TRUE],
       [dish_id |-> "d1", ingredient_id |-> "i2", quantity_needed |-> 2,
        is_critical |-> FALSE],
       [dish_id |-> "d2", ingredient_id |-> "i2", quantity_needed |-> 1],
       [dish_id |-> "d2", ingredient_id |-> "i3", quantity_needed |-> 1,
        is_critical |-> TRUE] >>
Dishes == {"d1", "d2"}
DishIds == Dishes \cup {"d0"}
IngredientIds == {"i1", "i2"}

VARIABLES
    inventory,               \* 'inventory' collection: batch id -> batch
    stock_adjustments,       \* 'stock_adjustments' collection, in write order
    low_stock_alerts,        \* 'low_stock_alerts' collection, in write order
    sales_transaction_items, \* 'sales_transaction_items', in write order
    ingredients,             \* 'ingredients' collection: id -> current_stock
    dish_sales,              \* 'dish_sales' collection, in write order
    stock_transactions,      \* 'stock_transactions' collection, in write order
    menu_items,              \* InventoryManager.menu_items: item -> recipe
    suppliers,               \* InventoryManager.suppliers: ingredient -> info
    requests,                \* the requests in flight, with their locals
    response,                \* the last request answered and its HTTP status
    redis                    \* the Redis cache: the entries set and not expired

ledgerVars == <<inventory, stock_adjustments, low_stock_alerts,
                sales_transaction_items>>
dishVars == <<ingredients, dish_sales, stock_transactions>>
managerVars == <<menu_items, suppliers>>
cacheVars == <<redis>>
vars == <<ledgerVars, dishVars, managerVars, cacheVars, requests, response>>

(* ------------------------- helper functions --------------------------- *)
RECURSIVE StreamIds(_)
\* ids of a set of documents in the order a query streams them
StreamIds(S) ==
    IF S = {} THEN <<>>
    ELSE LET m == CHOOSE x \in S : \A y \in S : x <= y
         IN <<m>> \o StreamIds(S \ {m})

\* inventory_ref.where('product_id', '==', product_id).stream()
QueryInventory(inv, product_id) ==
    StreamIds({b \in DOMAIN inv : inv[b].product_id = product_id})

RECURSIVE SumQuantities(_, _)
SumQuantities(inv, ids) ==
    IF ids = <<>> THEN 0
    ELSE inv[Head(ids)].quantity + SumQuantities(inv, Tail(ids))

\* a total that forgets the where('product_id', '==', ...) filter
calculate_total_stock_unfiltered(inv, product_id) ==
    SumQuantities(inv, StreamIds(DOMAIN inv))

calculate_total_stock(inv, product_id) ==
    SumQuantities(inv, QueryInventory(inv, product_id))

\* the sort key: x.get('expiry_date') or date.max
ExpiryKey(item) ==
    IF item.expiry_date = None THEN DateMax ELSE item.expiry_date[1]

RECURSIVE InsertSorted(_, _)
\* stable insertion of item x behind every item whose key is <= its key
InsertSorted(sorted, x) ==
    IF sorted = <<>> THEN <<x>>
    ELSE IF ExpiryKey(Head(sorted)) <= ExpiryKey(x)
         THEN <<Head(sorted)>> \o InsertSorted(Tail(sorted), x)
         ELSE <<x>> \o sorted

RECURSIVE SortByExpiry(_)
\* list.sort(key=...) : stable, ascending
SortByExpiry(items) ==
    IF items = <<>> THEN <<>>
    ELSE InsertSorted(SortByExpiry(SubSeq(items, 1, Len(items) - 1)),
                      items[Len(items)])

\* the documents of a product as the query streams them, with their id
StreamItems(inv, product_id) ==
    LET ids == QueryInventory(inv, product_id)
    IN [i \in 1..Len(ids) |->
           [id |-> ids[i],
            quantity |-> inv[ids[i]].quantity,
            expiry_date |-> inv[ids[i]].expiry_date]]

\* a snapshot that is left in stream order
get_fifo_items_unsorted(inv, product_id) == StreamItems(inv, product_id)

\* the snapshot a deduction works on: FIFO sorted
get_fifo_items(inv, product_id) == SortByExpiry(StreamItems(inv, product_id))

DeleteDoc(inv, id) == [b \in DOMAIN inv \ {id} |-> inv[b]]

UpdateQuantity(inv, id, q) == [inv EXCEPT ![id].quantity = q]

\* one iteration of the FIFO loop body on snapshot item 'item'
FifoStep(st, item) ==
    IF st.remaining <= 0 THEN st
    ELSE IF item.quantity <= st.remaining
         THEN [inv |-> DeleteDoc(st.inv, item.id),
               remaining |-> st.remaining - item.quantity]
         ELSE [inv |-> UpdateQuantity(st.inv, item.id,
                                      item.quantity - st.remaining),
               remaining |-> 0]

RECURSIVE FifoLoop(_, _)
FifoLoop(st, items) ==
    IF items = <<>> THEN st
    ELSE FifoLoop(FifoStep(st, Head(items)), Tail(items))

\* the whole deduction: snapshot, sort, walk
FifoDeduct(inv, product_id, amount) ==
    FifoLoop([inv |-> inv, remaining |-> amount],
             get_fifo_items(inv, product_id)).inv

create_stock_adjustment(adjs, product_id, quantity_change, adjustment_type, reason) ==
    Append(adjs, [product_id |-> product_id,
                  adjustment_type |-> adjustment_type,
                  quantity_change |-> quantity_change,
                  reason |-> reason])

\* existing unacknowledged alerts of a product
ExistingAlerts(alerts, product_id) ==
    {i \in 1..Len(alerts) : /\ alerts[i].product_id = product_id
                            /\ ~alerts[i].is_acknowledged}

\* a check that does not look for an existing alert
check_low_stock_alerts_always(alerts, inv, product_id) ==
    LET current_stock == calculate_total_stock(inv, product_id)
    IN IF current_stock <= LowStockThreshold
       THEN Append(alerts, [product_id |-> product_id,
                            alert_threshold |-> LowStockThreshold,
                            current_stock |-> current_stock,
                            is_acknowledged |-> FALSE])
       ELSE alerts

check_low_stock_alerts(alerts, inv, product_id) ==
    LET current_stock == calculate_total_stock(inv, product_id)
    IN IF /\ current_stock <= LowStockThreshold
          /\ ExistingAlerts(alerts, product_id) = {}
       THEN Append(alerts, [product_id |-> product_id,
                            alert_threshold |-> LowStockThreshold,
                            current_stock |-> current_stock,
                            is_acknowledged |-> FALSE])
       ELSE alerts

(* ---------------- InventoryManager: forecast to orders ---------------- *)
\* Amounts are counted in thousandths of a unit (kg, litre, piece), money in
\* tenths; quotients are kept as fractions, so the arithmetic is exact.
Unit == 1000

Line(ingredient, amount) == [ingredient |-> ingredient, amount |-> amount]

\* self.menu_items after __init__: the recipe lines in dict order
DefaultMenuItems ==
    [coffee |-> <<Line("coffee_beans", 25), Line("milk", 100),
                  Line("sugar", 10), Line("cup", 1000), Line("lid", 1000)>>,
     latte |-> <<Line("coffee_beans", 25), Line("milk", 250),
                 Line("sugar", 10), Line("cup", 1000), Line("lid", 1000)>>,
     cappuccino |-> <<Line("coffee_beans", 25), Line("milk", 200),
                      Line("sugar", 10), Line("cup", 1000),
                      Line("lid", 1000)>>,
     sandwich |-> <<Line("bread", 2000), Line("cheese", 50), Line("ham", 80),
                    Line("lettuce", 20), Line("tomato", 30),
                    Line("mayo", 20), Line("wrapping_paper", 1000)>>,
     croissant |-> <<Line("flour", 80), Line("butter", 40),
                     Line("sugar", 20), Line("yeast", 5), Line("egg", 500),
                     Line("wrapping_paper", 1000)>>,
     muffin |-> <<Line("flour", 60), Line("sugar", 30), Line("egg", 500),
                  Line("milk", 50), Line("butter", 20),
                  Line("wrapping_paper", 1000)>>]

Info(supplier, pack_size, cost_per_pack, min_order, lead_time_days) ==
    [supplier |-> supplier, pack_size |-> pack_size * Unit,
     cost_per_pack |-> cost_per_pack, min_order |-> min_order,
     lead_time_days |-> lead_time_days]

\* self.suppliers after __init__
DefaultSuppliers ==
    [coffee_beans |-> Info("Coffee Supply Co", 10, 1200, 1, 3),
     milk |-> Info("Dairy Fresh", 4, 80, 1, 1),
     sugar |-> Info("Sweet Supplies", 25, 450, 1, 2),
     bread |-> Info("Bakery Direct", 20, 35, 1, 1),
     cheese |-> Info("Dairy Fresh", 5, 350, 1, 2),
     ham |-> Info("Meat Market", 2, 180, 1, 2),
     lettuce |-> Info("Fresh Produce", 1, 40, 1, 1),
     tomato |-> Info("Fresh Produce", 2, 60, 1, 1),
     mayo |-> Info("Condiment Co", 2, 120, 1, 3),
     flour |-> Info("Bakery Direct", 25, 300, 1, 2),
     butter |-> Info("Dairy Fresh", 5, 400, 1, 2),
     yeast |-> Info("Bakery Direct", 1, 150, 1, 2),
     egg |-> Info("Dairy Fresh", 30, 120, 1, 1),
     cup |-> Info("Packaging Plus", 100, 250, 1, 3),
     lid |-> Info("Packaging Plus", 100, 200, 1, 3),
     wrapping_paper |-> Info("Packaging Plus", 500, 150, 1, 3)]

\* dict.update(): the given keys replace or extend the table
DictUpdate(table, given) ==
    [k \in DOMAIN table \cup DOMAIN given |->
        IF k \in DOMAIN given THEN given[k] ELSE table[k]]

\* the menu items one forecast day is taken to sell: int() of the share of
\* the sales over the average price (0.4 / 4.5 is 4 / 45, and so on)
DayCounts(daily_sales) ==
    <<[menu_item |-> "coffee", quantity |-> (daily_sales * 4) \div 45],
      [menu_item |-> "latte", quantity |-> (daily_sales * 3) \div 55],
      [menu_item |-> "sandwich", quantity |-> (daily_sales * 2) \div 80],
      [menu_item |-> "croissant", quantity |-> daily_sales \div 35]>>

RECURSIVE total_menu_items(_)
\* the aggregation over forecast_data['predicted_sales']
total_menu_items(predicted_sales) ==
    IF predicted_sales = <<>> THEN <<>>
    ELSE LET rest == total_menu_items(Tail(predicted_sales))
             day == DayCounts(Head(predicted_sales))
         IN IF rest = <<>> THEN day
            ELSE [i \in 1..Len(day) |->
                    [day[i] EXCEPT !.quantity = @ + rest[i].quantity]]

\* an accumulation that keeps the last amount only
Accumulate_overwrite(reqs, ingredient, total_amount) ==
    IF \E i \in 1..Len(reqs) : reqs[i].ingredient = ingredient
    THEN [i \in 1..Len(reqs) |->
            IF reqs[i].ingredient = ingredient
            THEN [reqs[i] EXCEPT !.required_amount = total_amount]
            ELSE reqs[i]]
    ELSE Append(reqs, [ingredient |-> ingredient,
                       required_amount |-> total_amount])

\* ingredient_requirements[ingredient] = get(ingredient, 0) + total_amount
Accumulate(reqs, ingredient, total_amount) ==
    IF \E i \in 1..Len(reqs) : reqs[i].ingredient = ingredient
    THEN [i \in 1..Len(reqs) |->
            IF reqs[i].ingredient = ingredient
            THEN [reqs[i] EXCEPT !.required_amount = @ + total_amount]
            ELSE reqs[i]]
    ELSE Append(reqs, [ingredient |-> ingredient,
                       required_amount |-> total_amount])

RECURSIVE RecipeLoop(_, _, _)
RecipeLoop(reqs, recipe, quantity) ==
    IF recipe = <<>> THEN reqs
    ELSE RecipeLoop(Accumulate(reqs, Head(recipe).ingredient,
                               quantity * Head(recipe).amount),
                    Tail(recipe), quantity)

RECURSIVE ingredient_requirements(_, _, _)
\* the loop over total_menu_items.items()
ingredient_requirements(reqs, items, menu) ==
    IF items = <<>> THEN reqs
    ELSE ingredient_requirements(
             IF Head(items).menu_item \in DOMAIN menu
             THEN RecipeLoop(reqs, menu[Head(items).menu_item],
                             Head(items).quantity)
             ELSE reqs,
             Tail(items), menu)

\* current_stock.get(ingredient, 0)
StockOf(current_stock, ingredient) ==
    IF ingredient \in DOMAIN current_stock THEN current_stock[ingredient]
    ELSE 0

\* a net requirement that keeps a reserve of one unit on top of the demand
net_requirement_with_reserve(required_amount, current_stock_amount) ==
    IF required_amount + Unit - current_stock_amount > 0
    THEN required_amount + Unit - current_stock_amount ELSE 0

net_requirement(required_amount, current_stock_amount) ==
    IF required_amount - current_stock_amount > 0
    THEN required_amount - current_stock_amount ELSE 0

\* int((net_requirement + pack_size - 1) / pack_size), then the minimum order
packs_needed(net, supplier_info) ==
    LET packs == (net + supplier_info.pack_size - Unit)
                     \div supplier_info.pack_size
    IN IF packs >= supplier_info.min_order THEN packs
       ELSE supplier_info.min_order

\* current_stock_amount / (required_amount / len(dates)), as a fraction
days_until_stockout(current_stock_amount, required_amount, days) ==
    [num |-> current_stock_amount * days, den |-> required_amount]

\* days_until_stockout < limit
Below(d, limit) == d.num < limit * d.den

\* an urgency chain whose first test lets the boundary through
urgency_at_lead_time(d, lead_time_days) ==
    IF d.num <= lead_time_days * d.den THEN "critical"
    ELSE IF Below(d, lead_time_days + 3) THEN "high"
    ELSE IF Below(d, lead_time_days + 7) THEN "medium"
    ELSE "low"

\* an urgency chain whose second test lets the boundary through
urgency_inclusive(d, lead_time_days) ==
    IF Below(d, lead_time_days) THEN "critical"
    ELSE IF d.num <= (lead_time_days + 3) * d.den THEN "high"
    ELSE IF Below(d, lead_time_days + 7) THEN "medium"
    ELSE "low"

urgency(d, lead_time_days) ==
    IF Below(d, lead_time_days) THEN "critical"
    ELSE IF Below(d, lead_time_days + 3) THEN "high"
    ELSE IF Below(d, lead_time_days + 7) THEN "medium"
    ELSE "low"

\* an ingredient reaches the urgency computation with nothing to divide by
RaisesZeroDivision(reqs, sup, current_stock, days) ==
    \E i \in 1..Len(reqs) :
        /\ reqs[i].ingredient \in DOMAIN sup
        /\ net_requirement(reqs[i].required_amount,
                           StockOf(current_stock, reqs[i].ingredient)) > 0
        /\ (days = 0 \/ reqs[i].required_amount = 0)

RECURSIVE RequirementLoop(_, _, _, _, _)
\* the loop over ingredient_requirements.items() that fills supplier_orders
RequirementLoop(orders, reqs, sup, current_stock, days) ==
    IF reqs = <<>> THEN orders
    ELSE LET ingredient == Head(reqs).ingredient
             required_amount == Head(reqs).required_amount
             current_stock_amount == StockOf(current_stock, ingredient)
             net == net_requirement(required_amount, current_stock_amount)
         IN RequirementLoop(
              IF ingredient \in DOMAIN sup /\ net > 0
              THEN LET supplier_info == sup[ingredient]
                       packs == packs_needed(net, supplier_info)
                   IN Append(orders,
                        [ingredient_name |-> ingredient,
                         current_stock |-> current_stock_amount,
                         required_amount |-> required_amount,
                         pack_size |-> supplier_info.pack_size,
                         packs_needed |-> packs,
                         total_cost |-> packs * supplier_info.cost_per_pack,
                         supplier |-> supplier_info.supplier,
                         urgency |->
                            urgency(days_until_stockout(
                                        current_stock_amount,
                                        required_amount, days),
                                    supplier_info.lead_time_days),
                         lead_time_days |-> supplier_info.lead_time_days])
              ELSE orders,
              Tail(reqs), sup, current_stock, days)

\* the requirements of a forecast under the tables menu and sup
RequirementsOf(menu, forecast_data) ==
    ingredient_requirements(
        <<>>,
        total_menu_items(SubSeq(forecast_data.predicted_sales, 1,
                                Len(forecast_data.dates))),
        menu)

\* InventoryManager.calculate_ingredient_requirements
calculate_ingredient_requirements(menu, sup, forecast_data, current_stock) ==
    RequirementLoop(<<>>, RequirementsOf(menu, forecast_data), sup,
                    current_stock, Len(forecast_data.dates))

RECURSIVE SumCost(_)
\* sum(x['total_cost'] for x in items)
SumCost(items) ==
    IF items = <<>> THEN 0
    ELSE Head(items).total_cost + SumCost(Tail(items))

WithUrgency(reqs, tier) == SelectSeq(reqs, LAMBDA r : r.urgency = tier)

\* the line item generate_supplier_orders makes of a requirement
OrderItem(req) ==
    [ingredient |-> req.ingredient_name,
     packs_needed |-> req.packs_needed,
     pack_size |-> req.pack_size,
     cost_per_pack |-> req.total_cost \div req.packs_needed,
     total_cost |-> req.total_cost,
     urgency |-> req.urgency]

\* a grouping that opens a new group for every requirement
AddToGroup_ungrouped(groups, req) ==
    Append(groups, [supplier_name |-> req.supplier,
                    order_items |-> <<OrderItem(req)>>,
                    total_cost |-> req.total_cost,
                    delivery_date |-> None,
                    order_status |-> "pending",
                    notes |-> ""])

\* supplier_groups[supplier]: a new group, or the one there, plus the item
AddToGroup(groups, req) ==
    IF \E i \in 1..Len(groups) : groups[i].supplier_name = req.supplier
    THEN [i \in 1..Len(groups) |->
            IF groups[i].supplier_name = req.supplier
            THEN [groups[i] EXCEPT
                     !.order_items = Append(@, OrderItem(req)),
                     !.total_cost = @ + req.total_cost]
            ELSE groups[i]]
    ELSE Append(groups, [supplier_name |-> req.supplier,
                         order_items |-> <<OrderItem(req)>>,
                         total_cost |-> req.total_cost,
                         delivery_date |-> None,
                         order_status |-> "pending",
                         notes |-> ""])

RECURSIVE GroupLoop(_, _)
GroupLoop(groups, reqs) ==
    IF reqs = <<>> THEN groups
    ELSE GroupLoop(AddToGroup(groups, Head(reqs)), Tail(reqs))

\* InventoryManager.generate_supplier_orders
generate_supplier_orders(reqs) == GroupLoop(<<>>, reqs)

NoResponse == [op |-> "none", status |-> 0]

Init ==
    /\ inventory = <<>>
    /\ stock_adjustments = <<>>
    /\ low_stock_alerts = <<>>
    /\ sales_transaction_items = <<>>
    /\ ingredients = <<>>
    /\ dish_sales = <<>>
    /\ stock_transactions = <<>>
    /\ menu_items = DefaultMenuItems
    /\ suppliers = DefaultSuppliers
    /\ redis = {}
    /\ requests = <<>>
    /\ response = NoResponse

(* ------------------------------ handlers ------------------------------ *)
\* db.collection('inventory').document(item_id).set(item_data)
SetItem(inv, id, p, q, e) ==
    [b \in DOMAIN inv \cup {id} |->
        IF b = id THEN [product_id |-> p, quantity |-> q, expiry_date |-> e]
        ELSE inv[b]]

\* POST /inventory
add_inventory_item(id, p, q, e) ==
    /\ response' = [op |-> "add_inventory_item", status |-> 200]
    /\ inventory' = SetItem(inventory, id, p, q, e)
    /\ stock_adjustments' =
          create_stock_adjustment(stock_adjustments, p, q, "received",
                                  "Inventory item added")
    /\ low_stock_alerts' =
          check_low_stock_alerts(low_stock_alerts, inventory', p)
    /\ UNCHANGED <<sales_transaction_items, dishVars,
                   managerVars, cacheVars, requests>>

\* the FIFO deduction block shared by adjust_stock and create_stocktake
ApplyDeduction(inv, product_id, quantity_change) ==
    IF quantity_change < 0
    THEN FifoDeduct(inv, product_id, 0 - quantity_change)
    ELSE inv

\* POST /inventory/adjust
adjust_stock(p, qc, t, r) ==
    /\ response' = [op |-> "adjust_stock", status |-> 200]
    /\ stock_adjustments' =
          create_stock_adjustment(stock_adjustments, p, qc, t, r)
    /\ inventory' = ApplyDeduction(inventory, p, qc)
    /\ low_stock_alerts' =
          check_low_stock_alerts(low_stock_alerts, inventory', p)
    /\ UNCHANGED <<sales_transaction_items, dishVars,
                   managerVars, cacheVars, requests>>

\* the recipe lines of a menu item that lead to a deduction
RecipeLines(menu_item_id) ==
    SelectSeq(RecipeIngredients,
              LAMBDA r : r.menu_item_id = menu_item_id /\ r.quantity > 0)

SaleReason(menu_item_id, quantity) ==
    "Sale of " \o ToString(quantity) \o " x " \o menu_item_id

RECURSIVE SaleLoop(_, _, _, _)
\* the loop over the recipe lines: deduct, then write the adjustment
SaleLoop(st, lines, menu_item_id, quantity) ==
    IF lines = <<>> THEN st
    ELSE LET line == Head(lines)
             total_needed == line.quantity * quantity
         IN SaleLoop(
              [inv |-> FifoDeduct(st.inv, line.product_id, total_needed),
               adjs |-> create_stock_adjustment(
                            st.adjs, line.product_id, 0 - total_needed,
                            "sale", SaleReason(menu_item_id, quantity))],
              Tail(lines), menu_item_id, quantity)

update_inventory_from_sale(inv, adjs, menu_item_id, quantity) ==
    SaleLoop([inv |-> inv, adjs |-> adjs], RecipeLines(menu_item_id),
             menu_item_id, quantity)

\* POST /transactions/{id}/items
add_transaction_item(m, q) ==
    /\ response' = [op |-> "add_transaction_item", status |-> 200]
    /\ sales_transaction_items' =
          Append(sales_transaction_items,
                 [menu_item_id |-> m, quantity |-> q])
    /\ LET st == update_inventory_from_sale(inventory, stock_adjustments,
                                             m, q)
       IN /\ inventory' = st.inv
          /\ stock_adjustments' = st.adjs
    /\ UNCHANGED <<low_stock_alerts, dishVars,
                   managerVars, cacheVars, requests>>

RECURSIVE StocktakeLoop(_, _)
\* the loop over stocktake_data.items()
StocktakeLoop(st, data) ==
    IF data = <<>> THEN st
    ELSE LET product_id == Head(data).product_id
             current_stock == calculate_total_stock(st.inv, product_id)
             difference == Head(data).actual_quantity - current_stock
         IN StocktakeLoop(
              IF difference # 0
              THEN [inv |-> ApplyDeduction(st.inv, product_id, difference),
                    adjs |-> create_stock_adjustment(
                                 st.adjs, product_id, difference,
                                 "stocktake", "Stocktake adjustment")]
              ELSE st,
              Tail(data))

RECURSIVE CheckAlertsLoop(_, _, _)
CheckAlertsLoop(alerts, inv, data) ==
    IF data = <<>> THEN alerts
    ELSE CheckAlertsLoop(
             check_low_stock_alerts(alerts, inv, Head(data).product_id),
             inv, Tail(data))

\* POST /stocktake
create_stocktake(data) ==
    /\ response' = [op |-> "create_stocktake", status |-> 200]
    /\ LET st == StocktakeLoop([inv |-> inventory,
                                 adjs |-> stock_adjustments], data)
       IN /\ inventory' = st.inv
          /\ stock_adjustments' = st.adjs
    /\ low_stock_alerts' = CheckAlertsLoop(low_stock_alerts, inventory', data)
    /\ UNCHANGED <<sales_transaction_items, dishVars,
                   managerVars, cacheVars, requests>>

\* POST /alerts/low-stock/{alert_id}/acknowledge
acknowledge_low_stock_alert(alert_id) ==
    /\ IF alert_id \in 1..Len(low_stock_alerts)
       THEN /\ low_stock_alerts' =
                 [low_stock_alerts EXCEPT ![alert_id].is_acknowledged = TRUE]
            /\ response' = [op |-> "acknowledge_low_stock_alert",
                            status |-> 200]
       ELSE \* update() of a missing document raises: HTTP 500
            /\ low_stock_alerts' = low_stock_alerts
            /\ response' = [op |-> "acknowledge_low_stock_alert",
                            status |-> 500]
    /\ UNCHANGED <<inventory, stock_adjustments, sales_transaction_items,
                   dishVars, managerVars, cacheVars, requests>>

\* get_dish_ingredients_data
get_dish_ingredients_data(dish_id) ==
    SelectSeq(DishIngredients, LAMBDA l : l.dish_id = dish_id)

\* ingredient.get("is_critical", True)
IsCritical(line) ==
    IF "is_critical" \in DOMAIN line THEN line.is_critical ELSE TRUE

\* the lines whose ingredient document exists
KnownLines(ings, dish_id) ==
    SelectSeq(get_dish_ingredients_data(dish_id),
              LAMBDA l : l.ingredient_id \in DOMAIN ings)

\* the check that raises HTTP 400: a critical line with current_stock < need
InsufficientStock(ings, dish_id, quantity_sold) ==
    \E i \in 1..Len(KnownLines(ings, dish_id)) :
        LET l == KnownLines(ings, dish_id)[i]
        IN /\ IsCritical(l)
           /\ ings[l.ingredient_id].current_stock
                 < l.quantity_needed * quantity_sold

\* the deductions prepared: only lines with current_stock >= total_needed
stock_deductions(ings, dish_id, quantity_sold) ==
    LET covered == SelectSeq(KnownLines(ings, dish_id),
                     LAMBDA l : ings[l.ingredient_id].current_stock
                                   >= l.quantity_needed * quantity_sold)
    IN [i \in 1..Len(covered) |->
           [ingredient_id |-> covered[i].ingredient_id,
            quantity |-> covered[i].quantity_needed * quantity_sold]]

RECURSIVE CommitDeductions(_, _)
\* the write batch: one increment(-quantity) and one transaction per deduction
CommitDeductions(st, deductions) ==
    IF deductions = <<>> THEN st
    ELSE LET d == Head(deductions)
         IN CommitDeductions(
              [ings |-> [st.ings EXCEPT ![d.ingredient_id].current_stock =
                                            @ - d.quantity],
               txs |-> Append(st.txs, [ingredient_id |-> d.ingredient_id,
                                       transaction_type |-> "sale",
                                       quantity_change |-> 0 - d.quantity])],
              Tail(deductions))

\* POST /sales/record-sale, the whole handler
record_dish_sale(dish_id, quantity_sold) ==
    IF dish_id \notin Dishes
    THEN /\ response' = [op |-> "record_dish_sale", status |-> 404]
         /\ UNCHANGED <<ledgerVars, dishVars,
                   managerVars, cacheVars, requests>>
    ELSE IF InsufficientStock(ingredients, dish_id, quantity_sold)
    THEN /\ response' = [op |-> "record_dish_sale", status |-> 400]
         /\ UNCHANGED <<ledgerVars, dishVars,
                   managerVars, cacheVars, requests>>
    ELSE /\ response' = [op |-> "record_dish_sale", status |-> 200]
         /\ dish_sales' = Append(dish_sales, [dish_id |-> dish_id,
                                              quantity_sold |-> quantity_sold])
         /\ LET st == CommitDeductions(
                         [ings |-> ingredients, txs |-> stock_transactions],
                         stock_deductions(ingredients, dish_id, quantity_sold))
            IN /\ ingredients' = st.ings
               /\ stock_transactions' = st.txs
         /\ UNCHANGED <<ledgerVars, managerVars, cacheVars, requests>>

(* ----------------- the ledger API, one request at a time --------------- *)
StocktakeData ==
    LET Entry == [product_id : Products, actual_quantity : Counts]
    IN {<<e>> : e \in Entry} \cup
       {<<e, f>> : e \in {x \in Entry : x.product_id = "p1"},
                   f \in {x \in Entry : x.product_id = "p2"}}

Acknowledged(alerts) ==
    {i \in 1..Len(alerts) : alerts[i].is_acknowledged}

AddItem ==
    \E id \in BatchIds \ DOMAIN inventory, p \in Products,
       q \in ItemQuantities, e \in ExpiryDates :
        /\ Len(stock_adjustments) < MaxAdjustments
        /\ add_inventory_item(id, p, q, e)

Adjust ==
    \E p \in Products, qc \in QuantityChanges :
        /\ Len(stock_adjustments) < MaxAdjustments
        /\ adjust_stock(p, qc, "manual", NoReason)

Sale ==
    \E m \in MenuItems, q \in SaleQuantities :
        /\ Len(stock_adjustments) + Len(RecipeLines(m)) <= MaxAdjustments
        /\ Len(sales_transaction_items) < MaxAdjustments
        /\ add_transaction_item(m, q)

Stocktake ==
    \E data \in StocktakeData :
        /\ Len(stock_adjustments) + Len(data) <= MaxAdjustments
        /\ create_stocktake(data)

Acknowledge ==
    \E alert_id \in 1..(Len(low_stock_alerts) + 1) :
        /\ Cardinality(Acknowledged(low_stock_alerts)) < MaxAcknowledged
        /\ acknowledge_low_stock_alert(alert_id)

Next ==
    \/ Adjust
    \/ Stocktake
    \/ Sale
    \/ AddItem
    \/ Acknowledge

Spec == Init /\ [][Next]_vars

(* ====================== properties of the ledger ====================== *)
BatchesOf(inv, p) == {b \in DOMAIN inv : inv[b].product_id = p}

RECURSIVE BatchSum(_, _)
\* the sum of the quantities of a set of live batches
BatchSum(inv, S) ==
    IF S = {} THEN 0
    ELSE LET b == CHOOSE x \in S : TRUE
         IN inv[b].quantity + BatchSum(inv, S \ {b})

LiveStock(inv, p) == BatchSum(inv, BatchesOf(inv, p))

RECURSIVE LedgerSum(_, _)
\* replaying the adjustments of a product from zero
LedgerSum(adjs, p) ==
    IF adjs = <<>> THEN 0
    ELSE (IF Head(adjs).product_id = p THEN Head(adjs).quantity_change ELSE 0)
         + LedgerSum(Tail(adjs), p)

\* the adjustments a step appends for product p
NewAdjustments(p) ==
    SelectSeq(SubSeq(stock_adjustments', Len(stock_adjustments) + 1,
                     Len(stock_adjustments')),
              LAMBDA a : a.product_id = p)

LedgerOnlyGrows ==
    /\ Len(stock_adjustments') >= Len(stock_adjustments)
    /\ SubSeq(stock_adjustments', 1, Len(stock_adjustments)) = stock_adjustments

\* C1: replaying the adjustments of a product from zero gives the sum of the
\* quantities of its live batches, after any sequence of add, manual
\* adjustment, sale deduction and stocktake from the empty store.
C1_LedgerReconciles ==
    \A p \in Products :
        LedgerSum(stock_adjustments, p) = LiveStock(inventory, p)

\* C2: between operations the total stock reported for a product is the sum
\* of the quantities of the batches stored for it, and the batches of the
\* other products do not contribute to it.
C2_TotalIsBatchSum ==
    \A p \in Products :
        /\ calculate_total_stock(inventory, p) = LiveStock(inventory, p)
        /\ calculate_total_stock(inventory, p) =
              calculate_total_stock(
                  [b \in BatchesOf(inventory, p) |-> inventory[b]], p)

C2_Witness ==
    /\ response.op # "none"
    /\ BatchesOf(inventory, "p1") # {}
    /\ BatchesOf(inventory, "p2") # {}
    /\ calculate_total_stock(inventory, "p1") = 3
    /\ calculate_total_stock(inventory, "p2") = 2

\* C5: every stock mutation writes exactly one adjustment for the product,
\* whose delta is the quantity actually added to, or minus the quantity
\* actually removed from, its batches; no mutation goes without adjustment.
C5_OneAdjustmentWithActualDelta ==
    [][\A p \in Products :
          (\/ NewAdjustments(p) # <<>>
           \/ BatchesOf(inventory', p) # BatchesOf(inventory, p)
           \/ LiveStock(inventory', p) # LiveStock(inventory, p))
          => /\ LedgerOnlyGrows
             /\ Len(NewAdjustments(p)) = 1
             /\ NewAdjustments(p)[1].quantity_change =
                   LiveStock(inventory', p) - LiveStock(inventory, p)]_vars

PartialReason(requested, fulfilled) ==
    "partial: requested " \o ToString(requested)
        \o ", fulfilled " \o ToString(fulfilled)

\* C8: the adjustment of a deduction that could only partly be fulfilled
\* carries the reason "partial: requested X, fulfilled Y".
C8_PartialReasonRecorded ==
    [][\A p \in Products :
          LET new == NewAdjustments(p)
              fulfilled == LiveStock(inventory, p) - LiveStock(inventory', p)
          IN (/\ Len(new) = 1
              /\ new[1].quantity_change < 0
              /\ fulfilled < 0 - new[1].quantity_change)
             => new[1].reason =
                   PartialReason(0 - new[1].quantity_change, fulfilled)]_vars

\* C9: a manual adjustment by a positive delta d raises the total stock of
\* the product by exactly d and writes one adjustment with delta +d.
C9_PositiveAdjustmentAddsStock ==
    [][\A p \in Products, d \in 1..MaxQty :
          adjust_stock(p, d, "manual", NoReason)
          => /\ LiveStock(inventory', p) = LiveStock(inventory, p) + d
             /\ Len(NewAdjustments(p)) = 1
             /\ NewAdjustments(p)[1].quantity_change = d]_vars

\* C10: after a stocktake of a product to the physical count c its total stock
\* is c, whether c lies above or below the computed stock.
C10_StocktakeReachesCount ==
    [][\A data \in StocktakeData :
          create_stocktake(data)
          => \A i \in 1..Len(data) :
                LiveStock(inventory', data[i].product_id)
                    = data[i].actual_quantity]_vars

\* the same stocktake once more, on the state the step has left
StocktakeAgain(data) ==
    StocktakeLoop([inv |-> inventory', adjs |-> stock_adjustments'], data)

\* C11: stocktake is idempotent: a second stocktake of a product to the same
\* physical count, nothing having happened in between, changes no batch and
\* writes no adjustment, for counts above, equal to and below the stock.
C11_StocktakeIdempotent ==
    [][\A data \in StocktakeData :
          create_stocktake(data)
          => /\ StocktakeAgain(data).inv = inventory'
             /\ StocktakeAgain(data).adjs = stock_adjustments']_vars

(* ============ deductions from a stocked store of one product =========== *)
StockedIds == {1, 2, 3}
StockedQuantities == {3, 5, 10}
StockedProduct == "p1"
\* amounts below, at and across the batch boundaries, and beyond the stock
DeductAmounts == {1, 3, 4, 6, 8, 9, 18, 31}
StocktakeCounts == {0, 2, 12, 17, 40}

\* the store after POST /inventory of one more batch
Received(st, id, q, e) ==
    LET inv == SetItem(st.inv, id, StockedProduct, q, e)
    IN [inv |-> inv,
        adjs |-> create_stock_adjustment(st.adjs, StockedProduct, q,
                                         "received", "Inventory item added"),
        alerts |-> check_low_stock_alerts(st.alerts, inv, StockedProduct)]

EmptyStore == [inv |-> <<>>, adjs |-> <<>>, alerts |-> <<>>]

\* the stores three deliveries leave behind
StockedStores ==
    {Received(Received(Received(EmptyStore, 1, q[1], e[1]), 2, q[2], e[2]),
              3, q[3], e[3]) :
        q \in [StockedIds -> StockedQuantities],
        e \in [StockedIds -> ExpiryDates]}

InitFifo ==
    /\ \E st \in StockedStores :
          /\ inventory = st.inv
          /\ stock_adjustments = st.adjs
          /\ low_stock_alerts = st.alerts
    /\ sales_transaction_items = <<>>
    /\ ingredients = <<>>
    /\ dish_sales = <<>>
    /\ stock_transactions = <<>>
    /\ menu_items = DefaultMenuItems
    /\ suppliers = DefaultSuppliers
    /\ redis = {}
    /\ requests = <<>>
    /\ response = NoResponse

FifoOps == Len(stock_adjustments) - Cardinality(StockedIds)

FifoAdjust ==
    \E q \in DeductAmounts :
        /\ FifoOps < MaxFifoOps
        /\ adjust_stock(StockedProduct, 0 - q, "manual", NoReason)

FifoSale ==
    \E m \in MenuItems, q \in 1..MaxSaleQty :
        /\ FifoOps < MaxFifoOps
        /\ add_transaction_item(m, q)

FifoStocktake ==
    \E c \in StocktakeCounts :
        /\ FifoOps < MaxFifoOps
        /\ create_stocktake(<<[product_id |-> StockedProduct,
                               actual_quantity |-> c]>>)

NextFifo == FifoAdjust \/ FifoSale \/ FifoStocktake

SpecFifo == InitFifo /\ [][NextFifo]_vars

Min(a, b) == IF a <= b THEN a ELSE b

\* what batch b gave up in the step
Taken(b) ==
    inventory[b].quantity
        - (IF b \in DOMAIN inventory' THEN inventory'[b].quantity ELSE 0)

RECURSIVE TakenSum(_)
TakenSum(S) ==
    IF S = {} THEN 0
    ELSE LET b == CHOOSE x \in S : TRUE IN Taken(b) + TakenSum(S \ {b})

\* the step took q from product p in FIFO order
FifoOutcome(p, q) ==
    LET B == BatchesOf(inventory, p)
    IN /\ DOMAIN inventory' \subseteq DOMAIN inventory
       /\ \A b \in DOMAIN inventory \ B :
             b \in DOMAIN inventory' /\ inventory'[b] = inventory[b]
       /\ TakenSum(B) = Min(q, LiveStock(inventory, p))
       /\ \A b \in B :
             /\ Taken(b) >= 0
             /\ Taken(b) <= inventory[b].quantity
             /\ b \in DOMAIN inventory' <=> Taken(b) < inventory[b].quantity
             /\ b \in DOMAIN inventory' =>
                   inventory'[b] =
                      [inventory[b] EXCEPT !.quantity = @ - Taken(b)]
             /\ Taken(b) > 0 =>
                   \A c \in B :
                      ExpiryKey(inventory[c]) < ExpiryKey(inventory[b])
                      => c \notin DOMAIN inventory'

\* the example of the specification, whatever ids the three batches got
IsExampleStore(inv) ==
    /\ DOMAIN inv = StockedIds
    /\ \E a, b, c \in StockedIds :
          /\ inv[a] = [product_id |-> StockedProduct, quantity |-> 3,
                       expiry_date |-> <<1>>]
          /\ inv[b] = [product_id |-> StockedProduct, quantity |-> 5,
                       expiry_date |-> <<2>>]
          /\ inv[c] = [product_id |-> StockedProduct, quantity |-> 10,
                       expiry_date |-> None]

ExampleOutcome ==
    \E a, b, c \in StockedIds :
        /\ inventory[a].quantity = 3
        /\ inventory[b].quantity = 5
        /\ inventory[c].quantity = 10
        /\ DOMAIN inventory' = {b, c}
        /\ inventory'[b] = [inventory[b] EXCEPT !.quantity = 2]
        /\ inventory'[c] = inventory[c]

\* C3: a deduction of q consumes the batches of the product in ascending
\* expiry order, batches without expiry last, each giving min(need, quantity);
\* a batch is touched only when all batches of earlier expiry are deleted.
\* Expiries [d1 < d2 < none] with [3, 5, 10] and q = 6 leave [removed, 2, 10].
C3_FifoOrder ==
    [][/\ \A q \in DeductAmounts :
             adjust_stock(StockedProduct, 0 - q, "manual", NoReason)
             => FifoOutcome(StockedProduct, q)
       /\ \A m \in MenuItems, n \in 1..MaxSaleQty :
             add_transaction_item(m, n)
             => \A i \in 1..Len(RecipeLines(m)) :
                   RecipeLines(m)[i].product_id = StockedProduct
                   => FifoOutcome(StockedProduct,
                                  RecipeLines(m)[i].quantity * n)
       /\ \A c \in StocktakeCounts :
             (/\ create_stocktake(<<[product_id |-> StockedProduct,
                                     actual_quantity |-> c]>>)
              /\ c < LiveStock(inventory, StockedProduct))
             => FifoOutcome(StockedProduct,
                            LiveStock(inventory, StockedProduct) - c)
       /\ (/\ IsExampleStore(inventory)
           /\ adjust_stock(StockedProduct, 0 - 6, "manual", NoReason))
          => ExampleOutcome]_vars

\* the example, on a store whose ids run against the expiry order
C3_Witness ==
    /\ Len(stock_adjustments) = 4
    /\ stock_adjustments[1].quantity_change = 10
    /\ stock_adjustments[2].quantity_change = 5
    /\ stock_adjustments[3].quantity_change = 3
    /\ stock_adjustments[4].quantity_change = 0 - 6
    /\ stock_adjustments[4].adjustment_type = "manual"
    /\ DOMAIN inventory = {1, 2}
    /\ inventory[1] = [product_id |-> StockedProduct, quantity |-> 10,
                       expiry_date |-> None]
    /\ inventory[2] = [product_id |-> StockedProduct, quantity |-> 2,
                       expiry_date |-> <<2>>]

(* ===================== the sale paths, side by side ==================== *)
\* a batch store with at most one delivery of each product
SalesStores ==
    {EmptyStore} \cup
    {Received(EmptyStore, 1, q, None) : q \in 1..MaxQty}

InitSales ==
    /\ \E st \in SalesStores :
          /\ inventory = st.inv
          /\ stock_adjustments = st.adjs
          /\ low_stock_alerts = st.alerts
    /\ sales_transaction_items = <<>>
    /\ ingredients \in [IngredientIds ->
                           [current_stock : 0..MaxIngredientStock]]
    /\ dish_sales = <<>>
    /\ stock_transactions = <<>>
    /\ menu_items = DefaultMenuItems
    /\ suppliers = DefaultSuppliers
    /\ redis = {}
    /\ requests = <<>>
    /\ response = NoResponse

SalesOps ==
    Len(dish_sales) + Len(sales_transaction_items)
        + Cardinality({i \in 1..Len(stock_adjustments) :
                          stock_adjustments[i].adjustment_type = "manual"})

DishSale ==
    \E d \in DishIds, n \in 1..MaxSold :
        /\ SalesOps < MaxSalesOps
        /\ record_dish_sale(d, n)

MenuSale ==
    \E m \in MenuItems, n \in 1..MaxSold :
        /\ SalesOps < MaxSalesOps
        /\ add_transaction_item(m, n)

ManualDeduction ==
    \E p \in Products, q \in 1..(MaxQty + 1) :
        /\ SalesOps < MaxSalesOps
        /\ adjust_stock(p, 0 - q, "manual", NoReason)

NextSales == DishSale \/ MenuSale \/ ManualDeduction

SpecSales == InitSales /\ [][NextSales]_vars

\* C6: a sale that needs more of a critical ingredient than is in stock fails
\* with InsufficientStock (HTTP 400) and changes no stock, no sale record and
\* no ledger entry; this on the dish path and on the menu-item path alike.
C6_CriticalShortageFailsWhole ==
    [][/\ \A d \in Dishes, n \in 1..MaxSold :
             (/\ record_dish_sale(d, n)
              /\ \E i \in 1..Len(KnownLines(ingredients, d)) :
                    LET l == KnownLines(ingredients, d)[i]
                    IN /\ IsCritical(l)
                       /\ l.quantity_needed * n
                             > ingredients[l.ingredient_id].current_stock)
             => /\ response'.status = 400
                /\ UNCHANGED <<ledgerVars, dishVars>>
       /\ \A m \in MenuItems, n \in 1..MaxSold :
             (/\ add_transaction_item(m, n)
              /\ \E i \in 1..Len(RecipeLines(m)) :
                    LET l == RecipeLines(m)[i]
                    IN /\ IsCritical(l)
                       /\ l.quantity * n > LiveStock(inventory, l.product_id))
             => /\ response'.status = 400
                /\ UNCHANGED <<ledgerVars, dishVars>>]_vars

\* C7: a deduction of more than the stock of a non-critical ingredient, or a
\* manual adjustment below zero, succeeds and leaves the total stock at 0.
C7_NonCriticalDeductsToZero ==
    [][/\ \A p \in Products, q \in 1..(MaxQty + 1) :
             (/\ adjust_stock(p, 0 - q, "manual", NoReason)
              /\ q > LiveStock(inventory, p))
             => /\ response'.status = 200
                /\ LiveStock(inventory', p) = 0
       /\ \A d \in Dishes, n \in 1..MaxSold :
             record_dish_sale(d, n)
             => \A i \in 1..Len(KnownLines(ingredients, d)) :
                   LET l == KnownLines(ingredients, d)[i]
                   IN (/\ ~IsCritical(l)
                       /\ l.quantity_needed * n
                             > ingredients[l.ingredient_id].current_stock
                       /\ ~InsufficientStock(ingredients, d, n))
                      => /\ response'.status = 200
                         /\ ingredients'[l.ingredient_id].current_stock = 0
      ]_vars

(* ========= two deductions on one product, one database call a step ====== *)
\* Nothing in the handlers holds a lock or runs in a transaction: requests
\* served by different worker processes interleave between their calls to
\* the store.
ConcQuantities == {2, 3}
ConcStores ==
    {Received(Received(EmptyStore, 1, q[1], e[1]), 2, q[2], e[2]) :
        q \in [{1, 2} -> ConcQuantities], e \in [{1, 2} -> ExpiryDates]}
RequestIds == {1, 2}
ConcMenuItem == "m1"

NewRequest(kind, amount) ==
    [kind |-> kind, amount |-> amount,
     pc |-> IF kind = "adjust_stock" THEN "write_adjustment"
            ELSE "write_sale_item",
     items |-> <<>>, remaining |-> 0, current_stock |-> 0, status |-> 0]

InitConc ==
    /\ \E st \in ConcStores :
          /\ inventory = st.inv
          /\ stock_adjustments = st.adjs
          /\ low_stock_alerts = st.alerts
    /\ sales_transaction_items = <<>>
    /\ ingredients = <<>>
    /\ dish_sales = <<>>
    /\ stock_transactions = <<>>
    /\ menu_items = DefaultMenuItems
    /\ suppliers = DefaultSuppliers
    /\ redis = {}
    /\ requests \in [RequestIds ->
                       {NewRequest(k, a) :
                           k \in {"adjust_stock", "add_transaction_item"},
                           a \in 1..MaxConcAmount}]
    /\ response = NoResponse

\* what a request has to deduct from the product
TotalNeeded(req) ==
    IF req.kind = "adjust_stock" THEN req.amount
    ELSE RecipeLines(ConcMenuItem)[1].quantity * req.amount

AfterLoop(req) ==
    IF req.kind = "adjust_stock" THEN "check_alerts" ELSE "write_adjustment"

\* where the FIFO loop goes after an iteration
LoopNext(req, items, remaining) ==
    IF items # <<>> /\ remaining > 0 THEN "write_batch" ELSE AfterLoop(req)

\* the handler returns: its status is the answer to the request
Finish(r, status) ==
    /\ requests' = [requests EXCEPT ![r].pc = "done", ![r].status = status]
    /\ response' = [op |-> requests[r].kind, status |-> status]

\* sales_transaction_items ... .set(item_data)
WriteSaleItem(r) ==
    /\ requests[r].pc = "write_sale_item"
    /\ sales_transaction_items' =
          Append(sales_transaction_items,
                 [menu_item_id |-> ConcMenuItem,
                  quantity |-> requests[r].amount])
    /\ requests' = [requests EXCEPT ![r].pc = "read_batches"]
    /\ UNCHANGED <<inventory, stock_adjustments, low_stock_alerts, dishVars,
                   managerVars, cacheVars,
                   response>>

\* adjust_stock writes its adjustment before it reads the batches,
\* update_inventory_from_sale after its loop
WriteAdjustment(r) ==
    /\ requests[r].pc = "write_adjustment"
    /\ IF requests[r].kind = "adjust_stock"
       THEN /\ stock_adjustments' =
                 create_stock_adjustment(stock_adjustments, StockedProduct,
                                         0 - requests[r].amount, "manual",
                                         NoReason)
            /\ requests' = [requests EXCEPT ![r].pc = "read_batches"]
            /\ UNCHANGED response
       ELSE /\ stock_adjustments' =
                 create_stock_adjustment(
                     stock_adjustments, StockedProduct,
                     0 - TotalNeeded(requests[r]), "sale",
                     SaleReason(ConcMenuItem, requests[r].amount))
            /\ Finish(r, 200)
    /\ UNCHANGED <<inventory, low_stock_alerts, sales_transaction_items,
                   dishVars, managerVars, cacheVars>>

\* the query for the batches and the sort: the snapshot the loop walks
ReadBatches(r) ==
    /\ requests[r].pc = "read_batches"
    /\ LET items == get_fifo_items(inventory, StockedProduct)
           remaining == TotalNeeded(requests[r])
       IN requests' = [requests EXCEPT
                          ![r].items = items,
                          ![r].remaining = remaining,
                          ![r].pc = LoopNext(requests[r], items, remaining)]
    /\ UNCHANGED <<ledgerVars, dishVars, managerVars, cacheVars, response>>

\* one iteration of the loop: delete() or update() of the next snapshot item
WriteBatch(r) ==
    /\ requests[r].pc = "write_batch"
    /\ LET req == requests[r]
           item == Head(req.items)
       IN IF item.quantity > req.remaining /\ item.id \notin DOMAIN inventory
          THEN \* update() of a deleted document raises NotFound: adjust_stock
               \* answers 500, update_inventory_from_sale logs and returns
               /\ Finish(r, IF req.kind = "adjust_stock" THEN 500 ELSE 200)
               /\ UNCHANGED inventory
          ELSE LET st == FifoStep([inv |-> inventory,
                                   remaining |-> req.remaining], item)
               IN /\ inventory' = st.inv
                  /\ requests' =
                        [requests EXCEPT
                            ![r].items = Tail(req.items),
                            ![r].remaining = st.remaining,
                            ![r].pc = LoopNext(req, Tail(req.items),
                                               st.remaining)]
                  /\ UNCHANGED response
    /\ UNCHANGED <<stock_adjustments, low_stock_alerts,
                   sales_transaction_items, dishVars, managerVars, cacheVars>>

\* check_low_stock_alerts: calculate_total_stock and the threshold test
CheckAlerts(r) ==
    /\ requests[r].pc = "check_alerts"
    /\ LET current_stock == calculate_total_stock(inventory, StockedProduct)
       IN IF current_stock <= LowStockThreshold
          THEN /\ requests' = [requests EXCEPT
                                  ![r].current_stock = current_stock,
                                  ![r].pc = "query_alerts"]
               /\ UNCHANGED response
          ELSE /\ Finish(r, 200)
    /\ UNCHANGED <<ledgerVars, dishVars, managerVars, cacheVars>>

\* check_low_stock_alerts: the query for an unacknowledged alert
QueryAlerts(r) ==
    /\ requests[r].pc = "query_alerts"
    /\ IF ExistingAlerts(low_stock_alerts, StockedProduct) = {}
       THEN /\ requests' = [requests EXCEPT ![r].pc = "write_alert"]
            /\ UNCHANGED response
       ELSE /\ Finish(r, 200)
    /\ UNCHANGED <<ledgerVars, dishVars, managerVars, cacheVars>>

\* check_low_stock_alerts: the new alert
WriteAlert(r) ==
    /\ requests[r].pc = "write_alert"
    /\ low_stock_alerts' =
          Append(low_stock_alerts,
                 [product_id |-> StockedProduct,
                  alert_threshold |-> LowStockThreshold,
                  current_stock |-> requests[r].current_stock,
                  is_acknowledged |-> FALSE])
    /\ Finish(r, 200)
    /\ UNCHANGED <<inventory, stock_adjustments, sales_transaction_items,
                   dishVars, managerVars, cacheVars>>

NextConc ==
    \/ \E r \in RequestIds :
          \/ WriteSaleItem(r)
          \/ WriteAdjustment(r)
          \/ ReadBatches(r)
          \/ WriteBatch(r)
          \/ CheckAlerts(r)
          \/ QueryAlerts(r)
          \/ WriteAlert(r)
    \/ Acknowledge

SpecConc == InitConc /\ [][NextConc]_vars

\* the stock the deliveries brought in
ReceivedStock ==
    LedgerSum(SelectSeq(stock_adjustments,
                        LAMBDA a : a.adjustment_type = "received"),
              StockedProduct)

\* both requests were answered 200
BothSucceeded ==
    /\ DOMAIN requests = RequestIds
    /\ \A r \in RequestIds :
          requests[r].pc = "done" /\ requests[r].status = 200

\* C4: two concurrent deductions of a and b from one product, a + b within
\* the stock, never work on the same read of the batches: when both have
\* been answered with success the total stock is the initial stock - a - b,
\* in every interleaving.
C4_NoDoubleSpend ==
    (/\ BothSucceeded
     /\ TotalNeeded(requests[1]) + TotalNeeded(requests[2]) <= ReceivedStock)
    => LiveStock(inventory, StockedProduct) =
          ReceivedStock - TotalNeeded(requests[1]) - TotalNeeded(requests[2])

(* ================= the low-stock alerts of one product ================= *)
\* small deliveries leave the product under the threshold, large ones over it
AlertQuantities == {2, 6}
AlertStores ==
    {Received(Received(EmptyStore, 1, q[1], None), 2, q[2], None) :
        q \in [{1, 2} -> AlertQuantities]}
AlertDeductions == {1, 3}
AlertCounts == {0, 3, 9}
RestockId == 3

InitAlerts ==
    /\ \E st \in AlertStores :
          /\ inventory = st.inv
          /\ stock_adjustments = st.adjs
          /\ low_stock_alerts = st.alerts
    /\ sales_transaction_items = <<>>
    /\ ingredients = <<>>
    /\ dish_sales = <<>>
    /\ stock_transactions = <<>>
    /\ menu_items = DefaultMenuItems
    /\ suppliers = DefaultSuppliers
    /\ redis = {}
    /\ requests = <<>>
    /\ response = NoResponse

\* the requests served since the two deliveries
AlertOps ==
    Len(stock_adjustments) - 2
        + Cardinality(Acknowledged(low_stock_alerts))

AlertAdjust ==
    \E q \in AlertDeductions :
        /\ AlertOps < MaxAlertOps
        /\ adjust_stock(StockedProduct, 0 - q, "manual", NoReason)

AlertSale ==
    \E n \in 1..MaxSaleQty :
        /\ AlertOps < MaxAlertOps
        /\ add_transaction_item(ConcMenuItem, n)

AlertStocktake ==
    \E c \in AlertCounts :
        /\ AlertOps < MaxAlertOps
        /\ create_stocktake(<<[product_id |-> StockedProduct,
                               actual_quantity |-> c]>>)

AlertRestock ==
    \E q \in AlertQuantities :
        /\ AlertOps < MaxAlertOps
        /\ RestockId \notin DOMAIN inventory
        /\ add_inventory_item(RestockId, StockedProduct, q, None)

\* any alert id may be sent: an open alert, an acknowledged one, a missing one
AlertAcknowledge ==
    \E alert_id \in 1..(Len(low_stock_alerts) + 1) :
        /\ AlertOps < MaxAlertOps
        /\ acknowledge_low_stock_alert(alert_id)

NextAlerts ==
    \/ AlertAdjust
    \/ AlertSale
    \/ AlertStocktake
    \/ AlertRestock
    \/ AlertAcknowledge

SpecAlerts == InitAlerts /\ [][NextAlerts]_vars

\* a deduction by a handler that runs the low-stock check afterwards
CheckedDeduction(p) ==
    \/ \E q \in AlertDeductions : adjust_stock(p, 0 - q, "manual", NoReason)
    \/ \E c \in AlertCounts :
          create_stocktake(<<[product_id |-> p, actual_quantity |-> c]>>)

C13_DeductionRunsCheck ==
    [][\A p \in Products :
          (/\ LiveStock(inventory', p) < LiveStock(inventory, p)
           /\ LiveStock(inventory', p) <= LowStockThreshold
           /\ ExistingAlerts(low_stock_alerts, p) = {})
          => ExistingAlerts(low_stock_alerts', p) # {}]_vars

\* the product has an acknowledged alert and no open one
AlertAcknowledged(alerts, p) ==
    /\ ExistingAlerts(alerts, p) = {}
    /\ \E i \in 1..Len(alerts) :
          alerts[i].product_id = p /\ alerts[i].is_acknowledged

RECURSIVE PositiveSum(_, _)
\* all that the ledger has ever added to a product: a bound of its stock
PositiveSum(adjs, p) ==
    IF adjs = <<>> THEN 0
    ELSE (IF Head(adjs).product_id = p /\ Head(adjs).quantity_change > 0
          THEN Head(adjs).quantity_change ELSE 0)
         + PositiveSum(Tail(adjs), p)

\* C14: the alert state of a product follows OK -> ALERTED -> ACKNOWLEDGED
\* -> OK.  After the acknowledgement a new unacknowledged alert is created
\* when the stock, having been above the threshold, drops to it or below
\* again; and none is created while the product is still ACKNOWLEDGED, that
\* is while its stock has not been above the threshold (here: has never been).
C14_AlertCycle ==
    [][\A p \in Products :
          AlertAcknowledged(low_stock_alerts, p)
          => /\ (/\ LiveStock(inventory, p) > LowStockThreshold
                 /\ LiveStock(inventory', p) <= LowStockThreshold)
                => ExistingAlerts(low_stock_alerts', p) # {}
             /\ PositiveSum(stock_adjustments', p) <= LowStockThreshold
                => ExistingAlerts(low_stock_alerts', p) = {}]_vars

\* C15: acknowledging an open alert sets its acknowledged flag; acknowledging
\* an alert that does not exist, or one that is already acknowledged, fails
\* (NotFound: the answer is an error) and changes no alert.
C15_AcknowledgeOnce ==
    [][\A alert_id \in 1..(Len(low_stock_alerts) + 1) :
          acknowledge_low_stock_alert(alert_id)
          => IF /\ alert_id \in 1..Len(low_stock_alerts)
                /\ ~low_stock_alerts[alert_id].is_acknowledged
             THEN /\ response'.status = 200
                  /\ low_stock_alerts' =
                        [low_stock_alerts EXCEPT
                            ![alert_id].is_acknowledged = TRUE]
             ELSE /\ response'.status # 200
                  /\ low_stock_alerts' = low_stock_alerts]_vars

(* ================== from a sales forecast to the orders ================ *)
\* PUT /menu-items
update_menu_items(given) ==
    /\ response' = [op |-> "update_menu_items", status |-> 200]
    /\ menu_items' = DictUpdate(menu_items, given)
    /\ UNCHANGED <<ledgerVars, dishVars, suppliers, cacheVars, requests>>

\* PUT /suppliers
update_suppliers(given) ==
    /\ response' = [op |-> "update_suppliers", status |-> 200]
    /\ suppliers' = DictUpdate(suppliers, given)
    /\ UNCHANGED <<ledgerVars, dishVars, menu_items, cacheVars, requests>>

\* POST /calculate-requirements, for the request in flight
CalculateRequirements ==
    /\ requests # <<>>
    /\ LET forecast_data == Head(requests).forecast_data
           current_stock == Head(requests).current_stock
       IN IF RaisesZeroDivision(RequirementsOf(menu_items, forecast_data),
                                suppliers, current_stock,
                                Len(forecast_data.dates))
          THEN response' = [op |-> "calculate_ingredient_requirements",
                            status |-> 500]
          ELSE LET requirements ==
                     calculate_ingredient_requirements(
                         menu_items, suppliers, forecast_data, current_stock)
               IN response' =
                    [op |-> "calculate_ingredient_requirements",
                     status |-> 200,
                     body |->
                       [ingredient_requirements |-> requirements,
                        total_ingredients |-> Len(requirements),
                        total_cost |-> SumCost(requirements),
                        critical_items |->
                            WithUrgency(requirements, "critical"),
                        high_priority_items |->
                            WithUrgency(requirements, "high")]]
    /\ requests' = Tail(requests)
    /\ UNCHANGED <<ledgerVars, dishVars, managerVars, cacheVars>>

RECURSIVE SupplierNames(_)
\* list(set(order['supplier_name'] for order in orders))
SupplierNames(orders) ==
    IF orders = <<>> THEN {}
    ELSE {Head(orders).supplier_name} \cup SupplierNames(Tail(orders))

\* POST /generate, sent with the requirements just calculated
GenerateOrders ==
    /\ response.op = "calculate_ingredient_requirements"
    /\ response.status = 200
    /\ LET orders ==
             generate_supplier_orders(response.body.ingredient_requirements)
       IN response' = [op |-> "generate_supplier_orders",
                       status |-> 200,
                       body |-> [supplier_orders |-> orders,
                                 total_orders |-> Len(orders),
                                 total_cost |-> SumCost(orders),
                                 suppliers |-> SupplierNames(orders)]]
    /\ UNCHANGED <<ledgerVars, dishVars, managerVars, cacheVars, requests>>

\* the forecasts: up to MaxForecastDays days at one level of sales
SalesLevels == {0, 40, 400}
Forecast(days, daily_sales) ==
    [dates |-> [i \in 1..days |-> i],
     predicted_sales |-> [i \in 1..days |-> daily_sales]]
PlanForecasts ==
    {Forecast(days, daily_sales) :
        days \in 0..MaxForecastDays, daily_sales \in SalesLevels}

\* stock on hand, given for three ingredients and missing for the others
PlanStocks ==
    {[ham |-> h, milk |-> m, lettuce |-> l] :
        h \in {0, 152, 160, 400, 408, 600}, m \in {0, 500, 6800},
        l \in {0, 3000}}

\* a sandwich recipe with an ingredient nobody supplies yet
MenuUpdates ==
    {[sandwich |-> <<Line("ham", 80), Line("lettuce", 1000),
                     Line("garnish", 500)>>]}
SupplierUpdates ==
    {[ham |-> Info("Meat Market", 2, 180, 3, 2)],
     [lettuce |-> Info("Fresh Produce", 5, 40, 1, 1)]}

InitPlan ==
    /\ inventory = <<>>
    /\ stock_adjustments = <<>>
    /\ low_stock_alerts = <<>>
    /\ sales_transaction_items = <<>>
    /\ ingredients = <<>>
    /\ dish_sales = <<>>
    /\ stock_transactions = <<>>
    /\ menu_items = DefaultMenuItems
    /\ suppliers = DefaultSuppliers
    /\ redis = {}
    /\ requests \in {<<[forecast_data |-> f, current_stock |-> c]>> :
                        f \in PlanForecasts, c \in PlanStocks}
    /\ response = NoResponse

UpdateMenuItems ==
    \E given \in MenuUpdates :
        /\ requests # <<>>
        /\ update_menu_items(given)

UpdateSuppliers ==
    \E given \in SupplierUpdates :
        /\ requests # <<>>
        /\ update_suppliers(given)

NextPlan ==
    \/ UpdateMenuItems
    \/ UpdateSuppliers
    \/ CalculateRequirements
    \/ GenerateOrders

SpecPlan == InitPlan /\ [][NextPlan]_vars

\* the requirements a calculation has answered with
Emitted(resp) ==
    IF resp.op = "calculate_ingredient_requirements" /\ resp.status = 200
    THEN resp.body.ingredient_requirements ELSE <<>>

\* days until stockout = current stock / (required amount / days) < limit
DaysBelow(r, days, limit) ==
    r.current_stock * days < limit * r.required_amount

\* C16: the urgency of every emitted requirement follows from the days until
\* stockout d = current stock / average daily demand and the lead time L:
\* critical iff d < L, high iff L <= d < L + 3, medium iff L + 3 <= d < L + 7,
\* low otherwise; exactly one tier applies.
C16_UrgencyTiers ==
    [][CalculateRequirements
       => \A i \in 1..Len(Emitted(response')) :
            LET r == Emitted(response')[i]
                days == Len(Head(requests).forecast_data.dates)
                L == r.lead_time_days
            IN /\ r.urgency \in {"critical", "high", "medium", "low"}
               /\ r.urgency = "critical" <=> DaysBelow(r, days, L)
               /\ r.urgency = "high" <=>
                     ~DaysBelow(r, days, L) /\ DaysBelow(r, days, L + 3)
               /\ r.urgency = "medium" <=>
                     ~DaysBelow(r, days, L + 3) /\ DaysBelow(r, days, L + 7)
               /\ r.urgency = "low" <=> ~DaysBelow(r, days, L + 7)]_vars

\* one answer with a requirement in each of the four tiers
C16_Witness ==
    \A tier \in {"critical", "high", "medium", "low"} :
        \E i \in 1..Len(Emitted(response)) :
            Emitted(response)[i].urgency = tier

\* days_until_stockout of the requirement r is exactly tenths / 10
DaysExactly(r, days, tenths) ==
    r.current_stock * days * 10 = tenths * r.required_amount

\* the tier the answer gives to every requirement with a lead time of two
\* days whose days_until_stockout is exactly tenths / 10
BoundaryTier(tenths, tier) ==
    \A i \in 1..Len(Emitted(response')) :
        LET r == Emitted(response')[i]
            days == Len(Head(requests).forecast_data.dates)
        IN  r.lead_time_days = 2 /\ DaysExactly(r, days, tenths)
            => r.urgency = tier

\* C17: with a supplier lead time of 2 days, a requirement whose
\* days_until_stockout is 1.9 is critical, 2.0 is high, 5.0 is medium
\* (5.0 < 2 + 3 is false) and 5.1 is medium.
C17_UrgencyBoundaries ==
    [][CalculateRequirements
       => /\ BoundaryTier(19, "critical")
          /\ BoundaryTier(20, "high")
          /\ BoundaryTier(50, "medium")
          /\ BoundaryTier(51, "medium")]_vars

\* C17 as stated: with a lead time of 2 days, 1.9 is critical, 2.0 is high,
\* 5.0 is high and 5.1 is medium.
C17_AsStated ==
    [][CalculateRequirements
       => /\ BoundaryTier(19, "critical")
          /\ BoundaryTier(20, "high")
          /\ BoundaryTier(50, "high")
          /\ BoundaryTier(51, "medium")]_vars

\* an answer with a requirement of lead time 2 whose stock lasts exactly
\* 5.0 days: required * 5 = current_stock * days, over at least one day
C17_Witness ==
    \E i \in 1..Len(Emitted(response)) :
        LET r == Emitted(response)[i]
        IN  /\ r.lead_time_days = 2
            /\ r.urgency = "medium"
            /\ \E days \in 1..MaxForecastDays : DaysExactly(r, days, 50)

\* the least number of packs that covers the amount: ceil(amount / pack_size)
CeilPacks(amount, pack_size) ==
    (amount + pack_size - 1) \div pack_size

\* the pack count of the claim: the ceiling, raised to the minimum order
ClaimedPacks(net, pack_size, min_order) ==
    IF CeilPacks(net, pack_size) > min_order
    THEN CeilPacks(net, pack_size) ELSE min_order

\* C18: every emitted requirement has packs_needed = ceil(net requirement /
\* pack size), raised to the supplier's minimum order when that is larger,
\* so that packs_needed * pack_size >= net requirement, also when the net
\* requirement is not a whole number of units.
C18_PacksCoverNet ==
    [][CalculateRequirements
       => \A i \in 1..Len(Emitted(response')) :
            LET r == Emitted(response')[i]
                net == net_requirement(r.required_amount, r.current_stock)
                min_order == suppliers[r.ingredient_name].min_order
            IN  /\ r.packs_needed = ClaimedPacks(net, r.pack_size, min_order)
                /\ r.packs_needed * r.pack_size >= net]_vars

\* the ingredients the forecast of the request being answered asks for
Demand == RequirementsOf(menu_items, Head(requests).forecast_data)

\* the answer lists the ingredient
Listed(resp, ingredient) ==
    \E i \in 1..Len(Emitted(resp)) :
        Emitted(resp)[i].ingredient_name = ingredient

\* the demand d appears in the answer exactly when required - stock > 0
ListedIffShort(d) ==
    LET stock == StockOf(Head(requests).current_stock, d.ingredient)
    IN  Listed(response', d.ingredient)
        <=> net_requirement(d.required_amount, stock) > 0

\* C19: for each ingredient with demand > 0, the net requirement is
\* max(0, required - current stock) and the ingredient appears in the
\* requirements output if and only if its net requirement is greater than 0:
\* covered by stock it is omitted, with a shortfall it is never omitted.
C19_ListedIffShortfall ==
    [][CalculateRequirements
       => \A j \in 1..Len(Demand) :
            Demand[j].required_amount > 0 => ListedIffShort(Demand[j])]_vars

\* the places <<k, j>> of the line items for an ingredient in the orders
ItemPlaces(orders, ingredient) ==
    {<<k, j>> \in (1..Len(orders)) \X (1..Len(Emitted(response))) :
        /\ j <= Len(orders[k].order_items)
        /\ orders[k].order_items[j].ingredient = ingredient}

\* the line item keeps the detail of the requirement
SameDetail(item, req) ==
    /\ item.ingredient = req.ingredient_name
    /\ item.packs_needed = req.packs_needed
    /\ item.pack_size = req.pack_size
    /\ item.total_cost = req.total_cost
    /\ item.urgency = req.urgency

RECURSIVE CountItems(_)
\* the number of line items of all the orders
CountItems(orders) ==
    IF orders = <<>> THEN 0
    ELSE Len(Head(orders).order_items) + CountItems(Tail(orders))

MaxTranslateDays == 3

\* the table without some of its menu items
Without(menu, absent) ==
    [m \in DOMAIN menu \ absent |-> menu[m]]

\* bills of materials that lack menu items the forecast asks for
TranslateMenus ==
    {DefaultMenuItems,
     Without(DefaultMenuItems, {"croissant"}),
     Without(DefaultMenuItems, {"latte", "sandwich"})}

\* forecasts of up to MaxTranslateDays days, each day at its own level
TranslateForecasts ==
    UNION {{[dates |-> [i \in 1..days |-> i], predicted_sales |-> sales] :
               sales \in [1..days -> SalesLevels]} :
           days \in 0..MaxTranslateDays}

InitTranslate ==
    /\ inventory = <<>>
    /\ stock_adjustments = <<>>
    /\ low_stock_alerts = <<>>
    /\ sales_transaction_items = <<>>
    /\ ingredients = <<>>
    /\ dish_sales = <<>>
    /\ stock_transactions = <<>>
    /\ menu_items \in TranslateMenus
    /\ suppliers = DefaultSuppliers
    /\ redis = {}
    /\ requests \in {<<[forecast_data |-> f, current_stock |-> <<>>]>> :
                        f \in TranslateForecasts}
    /\ response = NoResponse

NextTranslate ==
    \/ UpdateMenuItems
    \/ CalculateRequirements

SpecTranslate == InitTranslate /\ [][NextTranslate]_vars

\* the menu items a day of the forecast is broken down into
ForecastItems == {DayCounts(0)[i].menu_item : i \in 1..Len(DayCounts(0))}

\* the forecast quantity of a menu item on a day with these sales
ForecastQuantity(daily_sales, menu_item) ==
    LET day == DayCounts(daily_sales)
    IN  day[CHOOSE i \in 1..Len(day) : day[i].menu_item = menu_item].quantity

RECURSIVE RecipeQuantity(_, _)
\* the quantity of the ingredient in one unit of the recipe
RecipeQuantity(recipe, ingredient) ==
    IF recipe = <<>> THEN 0
    ELSE (IF Head(recipe).ingredient = ingredient
          THEN Head(recipe).amount ELSE 0)
         + RecipeQuantity(Tail(recipe), ingredient)

RECURSIVE SumItems(_, _, _, _)
\* sum over the menu items of forecast quantity * recipe quantity; an item
\* without an entry in the table counts for nothing
SumItems(items, menu, daily_sales, ingredient) ==
    IF items = {} THEN 0
    ELSE LET m == CHOOSE x \in items : TRUE
         IN  (IF m \in DOMAIN menu
              THEN ForecastQuantity(daily_sales, m)
                   * RecipeQuantity(menu[m], ingredient)
              ELSE 0)
             + SumItems(items \ {m}, menu, daily_sales, ingredient)

RECURSIVE SumDays(_, _, _, _)
\* sum over the first days of the forecast
SumDays(days, menu, predicted_sales, ingredient) ==
    IF days = 0 THEN 0
    ELSE SumItems(ForecastItems, menu, predicted_sales[days], ingredient)
         + SumDays(days - 1, menu, predicted_sales, ingredient)

\* the ingredients of the recipes the table has for the forecast's items
ForecastIngredients(menu) ==
    {menu[m][j].ingredient :
        <<m, j>> \in {<<m, j>> \in (ForecastItems \cap DOMAIN menu) \X (1..8) :
                         j <= Len(menu[m])}}

\* C21: the required quantity of each ingredient is the sum, over all
\* forecast days and menu items, of the forecast menu-item quantity times
\* the recipe quantity of the ingredient per item; a menu item without an
\* entry in the bill-of-materials contributes nothing and raises no error.
C21_RequiredIsSumOverDaysAndItems ==
    [][CalculateRequirements
       => LET f == Head(requests).forecast_data
              days == Len(f.dates)
              Sum(g) == SumDays(days, menu_items, f.predicted_sales, g)
          IN  /\ response'.status = 200
              /\ \A i \in 1..Len(Emitted(response')) :
                    Emitted(response')[i].required_amount
                        = Sum(Emitted(response')[i].ingredient_name)
              /\ \A j \in 1..Len(Demand) :
                    Demand[j].required_amount = Sum(Demand[j].ingredient)
              /\ \A g \in ForecastIngredients(menu_items) :
                    Sum(g) > 0
                    => \E j \in 1..Len(Demand) : Demand[j].ingredient = g]_vars

\* a table without croissant has answered a forecast of two days, one at
\* 40 and one at 400 sales: coffee_beans, shared by coffee and latte, adds
\* up to 25 * (3 + 2) + 25 * (35 + 21), and flour, which only the
\* croissant would need, is not asked for
C21_Witness ==
    /\ "croissant" \notin DOMAIN menu_items
    /\ ~Listed(response, "flour")
    /\ \E i \in 1..Len(Emitted(response)) :
          /\ Emitted(response)[i].ingredient_name = "coffee_beans"
          /\ Emitted(response)[i].required_amount = 1525

(* ======================== invalid quantities ========================== *)
\* the request is refused and the batches and the ledger stay as they were
Rejected ==
    /\ response'.status # 200
    /\ UNCHANGED <<inventory, stock_adjustments>>

\* C22: a negative quantity passed to the addition of a batch, or a
\* non-positive quantity passed to a consumption (a sale line with
\* quantity <= 0, a manual adjustment of 0), is rejected as an invalid
\* quantity and leaves the batches and the ledger unchanged.
C22_InvalidQuantityRejected ==
    [][/\ \A id \in BatchIds, p \in Products, e \in ExpiryDates :
            \A q \in ItemQuantities :
                q < 0 /\ add_inventory_item(id, p, q, e) => Rejected
       /\ \A p \in Products :
            adjust_stock(p, 0, "manual", NoReason) => Rejected
       /\ \A m \in MenuItems, q \in SaleQuantities :
            q <= 0 /\ add_transaction_item(m, q) => Rejected]_vars

(* ===================== concurrent low-stock checks ==================== *)
\* C23: at most one unacknowledged alert per product exists at any time,
\* also when two low-stock checks for the same product run concurrently:
\* the look-up of an unacknowledged alert and the creation of the new alert
\* by one check are not interleaved with those of the other so as to
\* create two.
C23_OneAlertUnderConcurrency ==
    \A p \in Products :
        Cardinality(ExistingAlerts(low_stock_alerts, p)) <= 1

(* ===================== a mutation that fails midway =================== *)
\* the manual adjustment records in the ledger
ManualRecords ==
    SelectSeq(stock_adjustments, LAMBDA a : a.adjustment_type = "manual")

\* the adjust_stock requests that have not been answered with an error
AdjustmentsNotFailed ==
    {r \in RequestIds :
        requests[r].kind = "adjust_stock" /\ requests[r].status # 500}

\* C24: a stock mutation that fails partway (a batch delete or update
\* raises) persists no partial effect: its adjustment record and its batch
\* changes are persisted together or not at all, so the ledger holds no
\* adjustment record of a request that was answered with an error.
C24_FailurePersistsNothing ==
    Len(ManualRecords) <= Cardinality(AdjustmentsNotFailed)

(* ================== the order of the ledger records =================== *)
\* the ledger has a manual record before a sale record; the deduction of
\* a sale is committed before its record is written
ManualBeforeSale ==
    \E i, j \in 1..Len(stock_adjustments) :
        /\ i < j
        /\ stock_adjustments[i].adjustment_type = "manual"
        /\ stock_adjustments[j].adjustment_type = "sale"

\* C25: for a single product the adjustment records appear in the ledger
\* in the order in which their batch mutations were committed, also when a
\* manual adjustment and a sale deduction overlap: a manual adjustment
\* whose record precedes the record of a sale does not commit a batch
\* mutation after that sale has committed its own.
C25_LedgerInCommitOrder ==
    [][\A a \in RequestIds :
          /\ requests[a].kind = "adjust_stock"
          /\ WriteBatch(a)
          /\ inventory' # inventory
          => ~ManualBeforeSale]_vars

(* ========================= the batches in store ======================= *)
\* C26: every batch in the store has quantity > 0 after any sequence of
\* operations: a batch whose quantity reaches 0 is removed, and no
\* operation leaves a batch with zero or negative quantity.
C26_BatchesPositive ==
    \A b \in DOMAIN inventory : inventory[b].quantity > 0

(* ============== batches with equal expiry, received apart ============= *)
MaxReceivedDate == 2

ReceivedDates == 1..MaxReceivedDate
ReceivedQuantities == {3, 5}

\* add_inventory_item with the fields of the document that matter here:
\* 'received_date': item.received_date or date.today()
ReceivedOn(st, id, q, e, d) ==
    LET r == Received(st, id, q, e)
    IN  [r EXCEPT !.inv =
            [b \in DOMAIN r.inv |->
                IF b = id
                THEN [product_id |-> StockedProduct, quantity |-> q,
                      expiry_date |-> e, received_date |-> d]
                ELSE r.inv[b]]]

\* three deliveries; the document ids are uuids, so the order in which a
\* query streams the documents says nothing about their received dates
DatedStores ==
    {ReceivedOn(ReceivedOn(ReceivedOn(EmptyStore, 1, q[1], e[1], d[1]),
                           2, q[2], e[2], d[2]),
                3, q[3], e[3], d[3]) :
        q \in [StockedIds -> ReceivedQuantities],
        e \in [StockedIds -> ExpiryDates],
        d \in [StockedIds -> ReceivedDates]}

InitReceived ==
    /\ \E st \in DatedStores :
          /\ inventory = st.inv
          /\ stock_adjustments = st.adjs
          /\ low_stock_alerts = st.alerts
    /\ sales_transaction_items = <<>>
    /\ ingredients = <<>>
    /\ dish_sales = <<>>
    /\ stock_transactions = <<>>
    /\ menu_items = DefaultMenuItems
    /\ suppliers = DefaultSuppliers
    /\ redis = {}
    /\ requests = <<>>
    /\ response = NoResponse

SpecReceived == InitReceived /\ [][NextFifo]_vars

\* batches b1 and b2 of the product expire on the same date, or both never
SameExpiry(b1, b2) ==
    inventory[b1].expiry_date = inventory[b2].expiry_date

\* C27: among batches of a product with the same expiry date (including
\* batches without expiry), the batch with the earlier received date is
\* consumed first: nothing is taken from a batch while one with the same
\* expiry and an earlier received date is left in the store.
C27_EarlierReceivedFirst ==
    [][\A b1, b2 \in BatchesOf(inventory, StockedProduct) :
          /\ SameExpiry(b1, b2)
          /\ inventory[b1].received_date < inventory[b2].received_date
          /\ Taken(b2) > 0
          => b1 \notin DOMAIN inventory']_vars

(* ============ two dish sales at once, one database call a step ========= *)
\* a POST /sales/record-sale in flight, with the locals of the handler
DishRequest(dish_id, quantity_sold) ==
    [kind |-> "record_dish_sale", dish_id |-> dish_id,
     quantity_sold |-> quantity_sold, pc |-> "get_dish",
     lines |-> <<>>, deductions |-> <<>>, status |-> 0]

InitDishConc ==
    /\ inventory = <<>>
    /\ stock_adjustments = <<>>
    /\ low_stock_alerts = <<>>
    /\ sales_transaction_items = <<>>
    /\ ingredients \in [IngredientIds ->
                           [current_stock : 0..MaxIngredientStock]]
    /\ dish_sales = <<>>
    /\ stock_transactions = <<>>
    /\ menu_items = DefaultMenuItems
    /\ suppliers = DefaultSuppliers
    /\ redis = {}
    /\ requests \in [RequestIds ->
                       {DishRequest(d, n) : d \in DishIds, n \in 1..MaxSold}]
    /\ response = NoResponse

\* the dish document and its ingredient lines
GetDish(r) ==
    /\ requests[r].pc = "get_dish"
    /\ IF requests[r].dish_id \notin Dishes
       THEN Finish(r, 404)
       ELSE LET lines == get_dish_ingredients_data(requests[r].dish_id)
            IN /\ requests' =
                     [requests EXCEPT
                         ![r].lines = lines,
                         ![r].pc = IF lines = <<>> THEN "commit"
                                   ELSE "get_ingredient"]
               /\ UNCHANGED response
    /\ UNCHANGED <<ledgerVars, dishVars, managerVars, cacheVars>>

\* one iteration of the loop: the ingredient document is read, the stock
\* is checked and the deduction is prepared from the value just read
GetIngredient(r) ==
    /\ requests[r].pc = "get_ingredient"
    /\ LET req == requests[r]
           line == Head(req.lines)
           total_needed == line.quantity_needed * req.quantity_sold
           exists == line.ingredient_id \in DOMAIN ingredients
           current_stock ==
               IF exists THEN ingredients[line.ingredient_id].current_stock
               ELSE 0
           next == IF Tail(req.lines) = <<>> THEN "commit"
                   ELSE "get_ingredient"
       IN IF exists /\ IsCritical(line) /\ current_stock < total_needed
          THEN Finish(r, 400)
          ELSE /\ requests' =
                     [requests EXCEPT
                         ![r].lines = Tail(req.lines),
                         ![r].pc = next,
                         ![r].deductions =
                             IF exists /\ current_stock >= total_needed
                             THEN Append(@, [ingredient_id |->
                                                 line.ingredient_id,
                                             quantity |-> total_needed])
                             ELSE @]
               /\ UNCHANGED response
    /\ UNCHANGED <<ledgerVars, dishVars, managerVars, cacheVars>>

\* batch.commit(): the sale, the increments and the transactions at once
CommitSale(r) ==
    /\ requests[r].pc = "commit"
    /\ dish_sales' =
          Append(dish_sales, [dish_id |-> requests[r].dish_id,
                              quantity_sold |-> requests[r].quantity_sold])
    /\ LET st == CommitDeductions(
                    [ings |-> ingredients, txs |-> stock_transactions],
                    requests[r].deductions)
       IN /\ ingredients' = st.ings
          /\ stock_transactions' = st.txs
    /\ Finish(r, 200)
    /\ UNCHANGED <<ledgerVars, managerVars, cacheVars>>

NextDishConc ==
    \E r \in RequestIds :
        \/ GetDish(r)
        \/ GetIngredient(r)
        \/ CommitSale(r)

SpecDishConc == InitDishConc /\ [][NextDishConc]_vars

\* C28: the current_stock of an ingredient never becomes negative through
\* record_dish_sale, also when two sales of dishes that use the same
\* critical ingredient are processed concurrently.
C28_StockNeverNegative ==
    \A i \in DOMAIN ingredients : ingredients[i].current_stock >= 0

(* ================== the division in the urgency test ================== *)
\* C29: calculate_ingredient_requirements never divides by zero when it
\* computes the days until stockout: for non-negative predicted sales and
\* non-negative current stock the calculation is answered without error,
\* and every ingredient that reached the urgency computation has a
\* required amount greater than 0 over a forecast of at least one day.
C29_NoDivisionByZero ==
    [][CalculateRequirements
       => /\ response'.status = 200
          /\ \A i \in 1..Len(Emitted(response')) :
                /\ Emitted(response')[i].required_amount > 0
                /\ Len(Head(requests).forecast_data.dates) >= 1]_vars

\* an answer whose requirements went through the urgency computation, one
\* with nothing in stock and one with some stock left
C29_Witness ==
    /\ \E i \in 1..Len(Emitted(response)) :
          Emitted(response)[i].current_stock = 0
    /\ \E i \in 1..Len(Emitted(response)) :
          Emitted(response)[i].current_stock > 0

(* ============== the inventory items API and its Redis cache =========== *)
MaxItems == 2
MaxStockLevel == 2

ItemIds == 1..MaxItems
Categories == {"a", "b"}
StockLevels == 0..MaxStockLevel
\* Depends(lambda: {"uid": "test-user"}): every request is this user's
TestUser == "test-user"
\* the arguments get_inventory_items is called with
CategoryFilters == {None, <<"b">>}
LowStockFilters == {None, <<TRUE>>}

\* the document create_inventory_item adds; lastUpdated is a datetime
ItemData(category, currentStock) ==
    [category |-> category, currentStock |-> currentStock, minStock |-> 1,
     userId |-> TestUser, lastUpdated |-> "datetime"]

\* the body of get_inventory_items: query, stream, low-stock filter
get_inventory_items(inv, category, low_stock) ==
    LET ids == StreamIds({b \in DOMAIN inv :
                   /\ inv[b].userId = TestUser
                   /\ category # None => inv[b].category = category[1]})
        items == [i \in 1..Len(ids) |->
                    [id |-> ids[i],
                     category |-> inv[ids[i]].category,
                     currentStock |-> inv[ids[i]].currentStock,
                     minStock |-> inv[ids[i]].minStock,
                     userId |-> inv[ids[i]].userId,
                     lastUpdated |-> inv[ids[i]].lastUpdated]]
    IN  IF low_stock = None THEN items
        ELSE IF low_stock[1]
        THEN SelectSeq(items, LAMBDA x : x.currentStock <= x.minStock)
        ELSE SelectSeq(items, LAMBDA x : x.currentStock > x.minStock)

\* f"{key_prefix}:{func.__name__}:{hash(str(args) + str(kwargs))}"
cache_key(category, low_stock) ==
    [key_prefix |-> "inventory", func |-> "get_inventory_items",
     kwargs |-> <<TestUser, category, low_stock>>]

\* json.dumps(value) raises TypeError on a datetime
JsonSerializable(value) ==
    \A i \in 1..Len(value) : "lastUpdated" \notin DOMAIN value[i]

\* redis_cache.set: setex of the serialized value, errors are logged only
redis_set(cache, key, value) ==
    IF JsonSerializable(value)
    THEN {e \in cache : e.key # key} \cup {[key |-> key, value |-> value]}
    ELSE cache

\* redis_cache.get: the entries under the key, none or one
redis_get(cache, key) == {e \in cache : e.key = key}

\* invalidate_cache(pattern): delete the keys matching *pattern*
invalidate_cache(cache, pattern) ==
    {e \in cache : e.key.key_prefix # pattern}

\* GET /, through the cached() wrapper
cached_get_inventory_items(category, low_stock) ==
    LET cache_key_ == cache_key(category, low_stock)
        hit == redis_get(redis, cache_key_)
        result == get_inventory_items(inventory, category, low_stock)
    IN  /\ response' =
               [op |-> "get_inventory_items", status |-> 200,
                body |-> IF hit # {} THEN (CHOOSE e \in hit : TRUE).value
                         ELSE result]
        /\ redis' = IF hit # {} THEN redis
                    ELSE redis_set(redis, cache_key_, result)
        /\ UNCHANGED <<ledgerVars, dishVars, managerVars, requests>>

\* POST /: the only handler that invalidates the cache
create_inventory_item(id, category, currentStock) ==
    /\ response' = [op |-> "create_inventory_item", status |-> 200]
    /\ inventory' = [b \in DOMAIN inventory \cup {id} |->
                        IF b = id THEN ItemData(category, currentStock)
                        ELSE inventory[b]]
    /\ redis' = invalidate_cache(redis, "inventory")
    /\ UNCHANGED <<stock_adjustments, low_stock_alerts,
                   sales_transaction_items, dishVars, managerVars, requests>>

\* the answer of a handler that did not find the document
NotFound(op) ==
    /\ response' = [op |-> op, status |-> 404]
    /\ UNCHANGED <<ledgerVars, dishVars, managerVars, cacheVars, requests>>

\* PUT /{item_id}, here with a new category
update_inventory_item(item_id, category) ==
    IF item_id \notin DOMAIN inventory THEN NotFound("update_inventory_item")
    ELSE /\ response' = [op |-> "update_inventory_item", status |-> 200]
         /\ inventory' = [inventory EXCEPT ![item_id].category = category]
         /\ UNCHANGED <<stock_adjustments, low_stock_alerts,
                        sales_transaction_items, dishVars, managerVars,
                        cacheVars, requests>>

\* DELETE /{item_id}
delete_inventory_item(item_id) ==
    IF item_id \notin DOMAIN inventory THEN NotFound("delete_inventory_item")
    ELSE /\ response' = [op |-> "delete_inventory_item", status |-> 200]
         /\ inventory' = DeleteDoc(inventory, item_id)
         /\ UNCHANGED <<stock_adjustments, low_stock_alerts,
                        sales_transaction_items, dishVars, managerVars,
                        cacheVars, requests>>

\* PATCH /{item_id}/stock
update_stock(item_id, newStock) ==
    IF item_id \notin DOMAIN inventory THEN NotFound("update_stock")
    ELSE /\ response' = [op |-> "update_stock", status |-> 200]
         /\ inventory' = [inventory EXCEPT ![item_id].currentStock = newStock]
         /\ UNCHANGED <<stock_adjustments, low_stock_alerts,
                        sales_transaction_items, dishVars, managerVars,
                        cacheVars, requests>>

InitCache ==
    /\ inventory = <<>>
    /\ stock_adjustments = <<>>
    /\ low_stock_alerts = <<>>
    /\ sales_transaction_items = <<>>
    /\ ingredients = <<>>
    /\ dish_sales = <<>>
    /\ stock_transactions = <<>>
    /\ menu_items = DefaultMenuItems
    /\ suppliers = DefaultSuppliers
    /\ redis = {}
    /\ requests = <<>>
    /\ response = NoResponse

GetItems ==
    \E category \in CategoryFilters, low_stock \in LowStockFilters :
        cached_get_inventory_items(category, low_stock)

CreateItem ==
    \E id \in ItemIds \ DOMAIN inventory, category \in Categories,
       currentStock \in StockLevels :
        create_inventory_item(id, category, currentStock)

UpdateItem ==
    \E item_id \in ItemIds, category \in Categories :
        update_inventory_item(item_id, category)

DeleteItem == \E item_id \in ItemIds : delete_inventory_item(item_id)

UpdateStock ==
    \E item_id \in ItemIds, newStock \in StockLevels :
        update_stock(item_id, newStock)

\* setex(key, ttl, ...): an entry is gone when its 60 seconds have passed
Expire ==
    /\ \E e \in redis : redis' = redis \ {e}
    /\ UNCHANGED <<ledgerVars, dishVars, managerVars, requests, response>>

NextCache ==
    \/ GetItems
    \/ CreateItem
    \/ UpdateItem
    \/ DeleteItem
    \/ UpdateStock
    \/ Expire

SpecCache == InitCache /\ [][NextCache]_vars

\* a create, update, delete or stock update that was answered 200
SuccessfulMutation ==
    /\ CreateItem \/ UpdateItem \/ DeleteItem \/ UpdateStock
    /\ response'.status = 200

\* C30: after any successful mutation of the inventory items through the
\* inventory API (create, update, delete, stock update) the next
\* get_inventory_items call with the same arguments does not return a list
\* that was cached before the mutation: no entry cached before it is left.
C30_MutationInvalidatesCache ==
    [][SuccessfulMutation
       => \A category \in CategoryFilters, low_stock \in LowStockFilters :
             redis_get(redis', cache_key(category, low_stock)) = {}]_vars
====
